---------------------------- MODULE Spec2Model ----------------------------
(***************************************************************************)
(* A model of src/resolve.rs: CrateDerivation::resolve and the helper      *)
(* ResolvedDependencies (new, filtered_dependencies).                      *)
(*                                                                         *)
(* resolve is a pure function of (config, metadata, package) plus one      *)
(* filesystem answer (the canonical form of config.cargo_toml).  The state *)
(* machine draws these inputs in Init and applies resolve in one step.     *)
(*                                                                         *)
(* Conventions                                                             *)
(*   - a String is a sequence of one-character strings, so that            *)
(*     normalize_package_name can be computed character by character;      *)
(*   - a Path is [abs : BOOLEAN, comps : Seq(STRING)], its components as   *)
(*     std::path::Path::components yields them (without the root);         *)
(*   - a PackageId is an integer, ordered as PackageId's Ord orders it;    *)
(*   - Option<T> is the empty sequence (None) or a one-element sequence    *)
(*     (Some); Result<T, E> is a record with the field ok.                 *)
(***************************************************************************)
EXTENDS Integers, Sequences, FiniteSets

VARIABLES
    metadata,   \* the IndexedMetadata passed to resolve
    package,    \* the Package passed to resolve
    config,     \* the GenerateConfig passed to resolve
    fs,         \* the filesystem's answer to config.cargo_toml.canonicalize()
    pc,         \* "call" before resolve has run, "returned" after
    result      \* what resolve returned: Result<CrateDerivation, Error>

vars == <<metadata, package, config, fs, pc, result>>

-----------------------------------------------------------------------------
(* Bounds of the input space.                                              *)

MaxId == 3
MaxEdges == 2
MaxDeclared == 2
MaxTargets == 2
MaxDepth == 2

-----------------------------------------------------------------------------
(* Values.                                                                 *)

None == <<>>
Some(x) == <<x>>

PackageIds == 1 .. MaxId

\* Package names as they are spelled in manifests: "a-b", "a_b", "c".
PkgNames == << <<"a", "-", "b">>, <<"a", "_", "b">>, <<"c">> >>

\* The Package that pkgs_by_id holds for id: the names repeat, so that two
\* ids can carry the same name or two spellings of one name.
PackageOf(id) == [id |-> id, name |-> PkgNames[((id - 1) % Len(PkgNames)) + 1]]

\* cargo_metadata::DependencyKind
DependencyKinds == {"Normal", "Development", "Build", "Unknown"}

\* Dependency.target: Option<Platform>, as its to_string() renders it.
Platforms == {None, Some("cfg(unix)")}

Path(abs, comps) == [abs |-> abs, comps |-> comps]

\* Path::components: the root of an absolute path is its first component.
Components(p) == IF p.abs THEN <<"/">> \o p.comps ELSE p.comps

\* Path::parent: None for a path that ends in the root or is empty.
Parent(p) ==
    IF p.comps = <<>> THEN None
    ELSE Some(Path(p.abs, SubSeq(p.comps, 1, Len(p.comps) - 1)))

\* PathBuf::join: an absolute right-hand side replaces the left-hand side.
Join(p, q) == IF q.abs THEN q ELSE Path(p.abs, p.comps \o q.comps)

IsPrefix(s, t) == Len(s) <= Len(t) /\ SubSeq(t, 1, Len(s)) = s

\* Path::starts_with: the components of base, its root among them, are the
\* first components of p.  The empty path is a prefix of every path.
StartsWith(p, base) == IsPrefix(Components(base), Components(p))

\* Path::strip_prefix: Ok(the components of p after those of base) when p
\* starts with base, Err otherwise.  The rest keeps the root of p when base
\* did not take it, which is when base is the empty path.
StripPrefix(p, base) ==
    IF StartsWith(p, base)
    THEN [ok |-> TRUE,
          path |-> Path(p.abs /\ ~base.abs,
                        SubSeq(p.comps, Len(base.comps) + 1, Len(p.comps)))]
    ELSE [ok |-> FALSE]


\* pathdiff::diff_paths(path, base), its loop over the two component lists:
\* a and b are what is left of path and of base, comps what was produced.
RECURSIVE DiffLoop(_, _, _)
DiffLoop(a, b, comps) ==
    IF a = <<>> /\ b = <<>> THEN [some |-> TRUE, comps |-> comps]
    ELSE IF b = <<>> THEN [some |-> TRUE, comps |-> comps \o a]
    ELSE IF a = <<>> THEN DiffLoop(a, Tail(b), Append(comps, ".."))
    ELSE IF comps = <<>> /\ Head(a) = Head(b) THEN DiffLoop(Tail(a), Tail(b), comps)
    ELSE IF Head(b) = "." THEN DiffLoop(Tail(a), Tail(b), Append(comps, Head(a)))
    ELSE IF Head(b) = ".." THEN [some |-> FALSE]
    ELSE [some |-> TRUE,
          comps |-> comps \o [i \in 1 .. Len(b) |-> ".."] \o a]

\* pathdiff::diff_paths: Option<PathBuf>.
diff_paths(path, base) ==
    IF path.abs # base.abs
    THEN IF path.abs THEN [some |-> TRUE, path |-> path] ELSE [some |-> FALSE]
    ELSE LET d == DiffLoop(path.comps, base.comps, <<>>)
         IN IF d.some THEN [some |-> TRUE, path |-> Path(FALSE, d.comps)]
                      ELSE [some |-> FALSE]

-----------------------------------------------------------------------------
(* ResolvedDependencies.                                                   *)

\* Mutant: the name is compared as it is spelled.
normalize_package_name_AsSpelled(package_name) == package_name

\* normalize_package_name: package_name.replace('-', "_")
normalize_package_name(package_name) ==
    [i \in 1 .. Len(package_name) |->
        IF package_name[i] = "-" THEN "_" ELSE package_name[i]]

\* The position at which a stable sort by id puts p in the sorted list s:
\* after every element whose id is not greater.
RECURSIVE InsertById(_, _)
InsertById(s, p) ==
    IF s = <<>> THEN <<p>>
    ELSE IF p.id < Head(s).id THEN <<p>> \o s
    ELSE <<Head(s)>> \o InsertById(Tail(s), p)

\* Mutant: the packages stay in the order of the edges.
SortById_EdgeOrder(s) == s

\* packages.sort_by(|p1, p2| p1.id.cmp(&p2.id)): a stable sort.
RECURSIVE SortById(_)
SortById(s) ==
    IF s = <<>> THEN <<>>
    ELSE InsertById(SortById(SubSeq(s, 1, Len(s) - 1)), s[Len(s)])

\* The first edge of deps whose package is not in pkgs_by_id, 0 if none:
\* collect::<Result<_, Error>>() stops at the first Err.
RECURSIVE FirstDangling(_, _, _)
FirstDangling(deps, pkgs_by_id, i) ==
    IF i > Len(deps) THEN 0
    ELSE IF deps[i].pkg \notin DOMAIN pkgs_by_id THEN i
    ELSE FirstDangling(deps, pkgs_by_id, i + 1)

\* Mutant: a dangling edge is skipped instead of reported.
ResolvedDependencies_new_DropDangling(md, pkg) ==
    IF pkg.id \notin DOMAIN md.nodes_by_id
    THEN [ok |-> FALSE,
          error |-> [kind |-> "NoNode", id |-> pkg.id, requester |-> pkg.id]]
    ELSE LET node == md.nodes_by_id[pkg.id]
             found == SelectSeq(node.deps, LAMBDA d : d.pkg \in DOMAIN md.pkgs_by_id)
         IN [ok |-> TRUE,
             node |-> node,
             packages |-> SortById([i \in 1 .. Len(found) |-> md.pkgs_by_id[found[i].pkg]]),
             dependencies |-> pkg.dependencies]

\* Mutant: the package of an edge is taken from the edge itself, which
\* carries the package's name, and pkgs_by_id is not consulted.
ResolvedDependencies_new_NoLookup(md, pkg) ==
    IF pkg.id \notin DOMAIN md.nodes_by_id
    THEN [ok |-> FALSE,
          error |-> [kind |-> "NoNode", id |-> pkg.id, requester |-> pkg.id]]
    ELSE LET node == md.nodes_by_id[pkg.id]
         IN [ok |-> TRUE,
             node |-> node,
             packages |-> SortById([i \in 1 .. Len(node.deps) |->
                                       PackageOf(node.deps[i].pkg)]),
             dependencies |-> pkg.dependencies]

\* ResolvedDependencies::new
ResolvedDependencies_new(md, pkg) ==
    IF pkg.id \notin DOMAIN md.nodes_by_id
    THEN [ok |-> FALSE,
          error |-> [kind |-> "NoNode", id |-> pkg.id, requester |-> pkg.id]]
    ELSE LET node == md.nodes_by_id[pkg.id]
             bad == FirstDangling(node.deps, md.pkgs_by_id, 1)
         IN IF bad # 0
            THEN [ok |-> FALSE,
                  error |-> [kind |-> "NoMatchingPackage",
                             id |-> node.deps[bad].pkg, requester |-> pkg.id]]
            ELSE [ok |-> TRUE,
                  node |-> node,
                  packages |-> SortById([i \in 1 .. Len(node.deps) |->
                                            md.pkgs_by_id[node.deps[i].pkg]]),
                  dependencies |-> pkg.dependencies]

\* Mutant: an insert leaves the value of a key that is present as it is.
Insert_KeepPresent(names, key, d) ==
    [k \in (DOMAIN names) \cup {key} |-> IF k \in DOMAIN names THEN names[k] ELSE d]

\* HashMap::insert, as collect() calls it for each pair: the value of a key
\* that is present is replaced.
Insert(names, key, d) ==
    [k \in (DOMAIN names) \cup {key} |-> IF k = key THEN d ELSE names[k]]

\* The HashMap collected from the (normalized name, dependency) pairs of the
\* dependencies that pass the filter, inserted in the order of deps.
RECURSIVE CollectInto(_, _, _)
CollectInto(names, deps, filter) ==
    IF deps = <<>> THEN names
    ELSE CollectInto(IF filter[Head(deps)]
                     THEN Insert(names, normalize_package_name(Head(deps).name), Head(deps))
                     ELSE names,
                     Tail(deps), filter)

CollectNames(deps, filter) == CollectInto(<<>>, deps, filter)

\* The flat_map over self.packages: one ResolvedDependency for each package
\* whose normalized name is a key of names, in the order of the packages.
RECURSIVE EmitMatches(_, _)
EmitMatches(packages, names) ==
    IF packages = <<>> THEN <<>>
    ELSE LET d == Head(packages)
             key == normalize_package_name(d.name)
         IN (IF key \in DOMAIN names
             THEN << [package_id |-> d.id, target |-> names[key].target] >>
             ELSE <<>>) \o EmitMatches(Tail(packages), names)

\* ResolvedDependencies::filtered_dependencies; filter is a function from
\* declared dependencies to BOOLEAN.
filtered_dependencies(self, filter) ==
    EmitMatches(self.packages, CollectNames(self.dependencies, filter))

-----------------------------------------------------------------------------
(* CrateDerivation::resolve.                                               *)

\* The declared dependencies a manifest of the model can hold.
Dependencies ==
    [name : {PkgNames[i] : i \in 1 .. Len(PkgNames)},
     kind : DependencyKinds,
     target : Platforms]

\* Mutant: development dependencies are taken for build dependencies too.
IsBuild_AlsoDevelopment ==
    [d \in Dependencies |-> d.kind = "Build" \/ d.kind = "Development"]

\* |d| d.kind == DependencyKind::Build
IsBuild == [d \in Dependencies |-> d.kind = "Build"]

\* Mutant: a dependency of unspecified kind is not a normal one.
IsNormal_NormalOnly == [d \in Dependencies |-> d.kind = "Normal"]

\* |d| d.kind == DependencyKind::Normal || d.kind == DependencyKind::Unknown
IsNormal == [d \in Dependencies |-> d.kind = "Normal" \/ d.kind = "Unknown"]

\* targets.iter().find(|t| t.kind.iter().any(|k| k == tag)): the index of
\* the first target tagged tag, 0 if there is none.
RECURSIVE FindTarget(_, _, _)
FindTarget(targets, tag, i) ==
    IF i > Len(targets) THEN 0
    ELSE IF tag \in targets[i].kind THEN i
    ELSE FindTarget(targets, tag, i + 1)

\* Mutant: find_map, the first tagged target whose path can be stripped.
TargetPath_TryLater(targets, tag, package_path) ==
    LET good == {i \in 1 .. Len(targets) :
                    /\ tag \in targets[i].kind
                    /\ StripPrefix(targets[i].src_path, package_path).ok}
    IN IF good = {} THEN None
       ELSE Some(StripPrefix(targets[CHOOSE i \in good : \A j \in good : i <= j].src_path,
                             package_path).path)

\* .find(..).and_then(|target| target.src_path.strip_prefix(package_path).ok())
TargetPath(targets, tag, package_path) ==
    LET i == FindTarget(targets, tag, 1)
    IN IF i = 0 THEN None
       ELSE LET stripped == StripPrefix(targets[i].src_path, package_path)
            IN IF stripped.ok THEN Some(stripped.path) ELSE None

\* targets.iter().any(|t| t.kind.iter().any(|k| k == tag))
AnyTarget(targets, tag) == \E i \in 1 .. Len(targets) : tag \in targets[i].kind

\* Mutant: "./" is put before the difference whatever it starts with.
RelativeSource_AlwaysJoin(package_path, config_directory) ==
    IF package_path = config_directory
    THEN Path(FALSE, <<".", ".">>)
    ELSE LET diff == diff_paths(package_path, config_directory)
             path == IF diff.some THEN diff.path ELSE package_path
         IN Join(Path(FALSE, <<".">>), path)

\* The if/else that computes relative_source.
RelativeSource(package_path, config_directory) ==
    IF package_path = config_directory
    THEN Path(FALSE, <<".", ".">>)
    ELSE LET diff == diff_paths(package_path, config_directory)
             path == IF diff.some THEN diff.path ELSE package_path
         IN IF StartsWith(path, Path(FALSE, <<"..">>))
            THEN path
            ELSE Join(Path(FALSE, <<".">>), path)

\* Mutant: only the root is looked at.
IsRootOrWorkspaceMember_RootOnly(md, pkg) ==
    \E i \in 1 .. Len(md.root) : md.root[i] = pkg.id

\* metadata.root.iter().chain(metadata.workspace_members.iter())
\*     .any(|pkg_id| *pkg_id == package.id)
IsRootOrWorkspaceMember(md, pkg) ==
    \/ \E i \in 1 .. Len(md.root) : md.root[i] = pkg.id
    \/ pkg.id \in md.workspace_members

\* The outcome of a panic: .expect(..) or .unwrap() on a None.  It is not a
\* value resolve returns; the call ends without one.
Panic(pkg) ==
    [ok |-> FALSE, error |-> [kind |-> "Panic", id |-> pkg.id, requester |-> pkg.id]]

\* CrateDerivation::resolve; canonical is the Result of
\* config.cargo_toml.canonicalize().
resolve(cfg, canonical, md, pkg) ==
    LET resolved_dependencies == ResolvedDependencies_new(md, pkg)
    IN IF ~resolved_dependencies.ok THEN resolved_dependencies
       ELSE IF Parent(pkg.manifest_path) = None THEN Panic(pkg)
       ELSE IF ~canonical.ok
       THEN [ok |-> FALSE,
             error |-> [kind |-> "Io", id |-> pkg.id, requester |-> pkg.id]]
       ELSE IF Parent(canonical.path) = None THEN Panic(pkg)
       ELSE LET package_path == Parent(pkg.manifest_path)[1]
                config_directory == Parent(canonical.path)[1]
            IN [ok |-> TRUE,
                value |->
                  [crate_name |-> pkg.name,
                   edition |-> pkg.edition,
                   authors |-> pkg.authors,
                   package_id |-> pkg.id,
                   version |-> pkg.version,
                   sha256 |-> None,
                   source_directory |-> RelativeSource(package_path, config_directory),
                   features |-> resolved_dependencies.node.features,
                   dependencies |-> filtered_dependencies(resolved_dependencies, IsNormal),
                   build_dependencies |-> filtered_dependencies(resolved_dependencies, IsBuild),
                   build |-> TargetPath(pkg.targets, "custom-build", package_path),
                   lib_path |-> TargetPath(pkg.targets, "lib", package_path),
                   proc_macro |-> AnyTarget(pkg.targets, "proc-macro"),
                   has_bin |-> AnyTarget(pkg.targets, "bin"),
                   is_root_or_workspace_member |-> IsRootOrWorkspaceMember(md, pkg)]]

-----------------------------------------------------------------------------
(* Inputs.                                                                 *)

\* Sequences over S of length at most n.
SeqUpTo(S, n) == UNION {[1 .. k -> S] : k \in 0 .. n}

\* Package.targets entries.
TargetKinds == {{"lib"}, {"cdylib", "lib"}, {"custom-build"}, {"bin"}, {"proc-macro"}}

DirNames == {"a", "b"}
Dirs == SeqUpTo(DirNames, MaxDepth)
Manifest(abs, dir) == Path(abs, Append(dir, "Cargo.toml"))

WsDir == <<"ws">>
SrcPaths ==
    {Path(TRUE, WsDir \o <<"src", "lib.rs">>),
     Path(TRUE, WsDir \o <<"build.rs">>),
     Path(TRUE, <<"other", "src", "lib.rs">>)}
Targets == [kind : TargetKinds, src_path : SrcPaths]

\* A Package with the given id, manifest path, targets and declared
\* dependencies; the fields resolve only copies are fixed.
MkPackage(id, manifest_path, targets, dependencies) ==
    [id |-> id,
     name |-> PackageOf(id).name,
     edition |-> "2018",
     authors |-> <<"author">>,
     version |-> "1.2.3",
     manifest_path |-> manifest_path,
     targets |-> targets,
     dependencies |-> dependencies]

\* An IndexedMetadata: packages for pkgKeys, nodes for nodeKeys, the node of
\* id with the edges deps.
MkMetadata(pkgKeys, nodeKeys, id, deps, root, workspace_members) ==
    [pkgs_by_id |-> [i \in pkgKeys |-> PackageOf(i)],
     nodes_by_id |-> [i \in nodeKeys |->
                        IF i = id THEN [deps |-> deps, features |-> <<"std", "alloc">>]
                                  ELSE [deps |-> <<>>, features |-> <<>>]],
     root |-> root,
     workspace_members |-> workspace_members]

\* Node.deps: the resolved graph names each dependency package of a node
\* once, in any order.
NodeDeps ==
    {deps \in SeqUpTo([pkg : PackageIds], MaxEdges) :
        \A i, j \in 1 .. Len(deps) : deps[i] = deps[j] => i = j}

NotCalled == [ok |-> FALSE, error |-> [kind |-> "NotCalled", id |-> 0, requester |-> 0]]

InitCommon ==
    /\ config = [cargo_toml |-> Path(FALSE, <<"Cargo.toml">>)]
    /\ pc = "call"
    /\ result = NotCalled

\* Matching: a consistent graph, any edges and any declared dependencies.
Init ==
    /\ InitCommon
    /\ fs = [ok |-> TRUE, path |-> Manifest(TRUE, WsDir)]
    /\ \E deps \in NodeDeps, declared \in SeqUpTo(Dependencies, MaxDeclared) :
         /\ metadata = MkMetadata(PackageIds, PackageIds, 1, deps, Some(1), {1})
         /\ package = MkPackage(1, Manifest(TRUE, WsDir), <<>>, declared)

\* Lookup: the two indexes hold any key sets.
LookupDeclared ==
    << [name |-> PkgNames[1], kind |-> "Normal", target |-> None],
       [name |-> PkgNames[3], kind |-> "Build", target |-> None] >>

InitLookup ==
    /\ InitCommon
    /\ fs = [ok |-> TRUE, path |-> Manifest(TRUE, WsDir)]
    /\ \E id \in PackageIds, pkgKeys \in SUBSET PackageIds,
          nodeKeys \in SUBSET PackageIds, deps \in NodeDeps :
         /\ metadata = MkMetadata(pkgKeys, nodeKeys, id, deps, None, {})
         /\ package = MkPackage(id, Manifest(TRUE, WsDir), <<>>, LookupDeclared)

\* Membership: any root and any workspace members.
InitMember ==
    /\ InitCommon
    /\ fs = [ok |-> TRUE, path |-> Manifest(TRUE, WsDir)]
    /\ \E id \in PackageIds, root \in {None} \cup {Some(i) : i \in PackageIds},
          members \in SUBSET PackageIds :
         /\ metadata = MkMetadata(PackageIds, PackageIds, id, <<>>, root, members)
         /\ package = MkPackage(id, Manifest(TRUE, WsDir), <<>>, <<>>)

\* Source directory: any configured root, any manifest directory; the
\* canonical path may also be unavailable, or be "/", which has no parent.
InitPath ==
    /\ InitCommon
    /\ fs \in {[ok |-> FALSE], [ok |-> TRUE, path |-> Path(TRUE, <<>>)]}
                \cup {[ok |-> TRUE, path |-> Manifest(TRUE, d)] : d \in Dirs}
    /\ metadata = MkMetadata(PackageIds, PackageIds, 1, <<>>, None, {})
    /\ \E abs \in BOOLEAN, d \in Dirs :
         package = MkPackage(1, Manifest(abs, d), <<>>, <<>>)

\* Targets: any target list.
InitTargets ==
    /\ InitCommon
    /\ fs = [ok |-> TRUE, path |-> Manifest(TRUE, WsDir)]
    /\ metadata = MkMetadata(PackageIds, PackageIds, 1, <<>>, None, {})
    /\ \E targets \in SeqUpTo(Targets, MaxTargets) :
         package = MkPackage(1, Manifest(TRUE, WsDir), targets, <<>>)

-----------------------------------------------------------------------------
(* The step.                                                               *)

\* One call of CrateDerivation::resolve(config, metadata, package).
Resolve ==
    /\ pc = "call"
    /\ result' = resolve(config, fs, metadata, package)
    /\ pc' = "returned"
    /\ UNCHANGED <<metadata, package, config, fs>>

Next == Resolve

Spec == Init /\ [][Next]_vars
\* The same inputs, for the properties of filtered_dependencies alone.
SpecFilter == Init /\ [][Next]_vars
SpecLookup == InitLookup /\ [][Next]_vars
SpecMember == InitMember /\ [][Next]_vars
SpecPath == InitPath /\ [][Next]_vars
SpecTargets == InitTargets /\ [][Next]_vars

-----------------------------------------------------------------------------
(* Vocabulary of the properties.                                           *)

Returned == pc = "returned"

\* The directory a manifest lies in.
DirOf(p) == Path(p.abs, SubSeq(p.comps, 1, Len(p.comps) - 1))
ReturnedOk == pc = "returned" /\ result.ok

\* The package identifiers of a list of ResolvedDependency.
IdsOf(list) == {list[i].package_id : i \in 1 .. Len(list)}

\* The edges of the package's node, and their identifiers.
EdgesOf(md, pkg) == md.nodes_by_id[pkg.id].deps
EdgeIds(md, pkg) == {EdgesOf(md, pkg)[i].pkg : i \in 1 .. Len(EdgesOf(md, pkg))}

\* Two names are the same up to '-' and '_': equal character by character,
\* or with '-' in the one where the other has '_'.
SameName(n1, n2) ==
    /\ Len(n1) = Len(n2)
    /\ \A i \in 1 .. Len(n1) : n1[i] = n2[i] \/ {n1[i], n2[i]} = {"-", "_"}

\* Package id's name matches a declared dependency of pkg whose kind is in kinds.
Declares(md, pkg, id, kinds) ==
    \E i \in 1 .. Len(pkg.dependencies) :
        /\ pkg.dependencies[i].kind \in kinds
        /\ SameName(pkg.dependencies[i].name, md.pkgs_by_id[id].name)

NodeAndEdgesExist(md, pkg) ==
    /\ pkg.id \in DOMAIN md.nodes_by_id
    /\ EdgeIds(md, pkg) \subseteq DOMAIN md.pkgs_by_id

Ascending(list) ==
    \A i \in 1 .. Len(list) - 1 : list[i].package_id <= list[i + 1].package_id

\* The permutations of 1 .. n, for each length n of an edge list.
Permutations ==
    [n \in 0 .. MaxEdges |->
        {f \in [1 .. n -> 1 .. n] : \A i, j \in 1 .. n : f[i] = f[j] => i = j}]

WithEdges(md, pkg, deps) == [md EXCEPT !.nodes_by_id[pkg.id].deps = deps]

-----------------------------------------------------------------------------
\* The predicates over the kind, one for each set of kinds.
KindFilters ==
    [kinds \in SUBSET DependencyKinds |-> [d \in Dependencies |-> d.kind \in kinds]]

(* C1.  For a package whose node and edge packages all exist, and for      *)
(* every predicate over the declared-dependency kind, the identifiers      *)
(* filtered_dependencies returns are exactly the edge identifiers whose    *)
(* package name equals, up to '-' and '_', the name of a declared          *)
(* dependency that satisfies the predicate.                                *)
C1_FilteredExact ==
    (Returned /\ NodeAndEdgesExist(metadata, package)) =>
        LET self == ResolvedDependencies_new(metadata, package)
        IN \A kinds \in SUBSET DependencyKinds :
              IdsOf(filtered_dependencies(self, KindFilters[kinds]))
                  = {id \in EdgeIds(metadata, package) :
                        Declares(metadata, package, id, kinds)}

\* resolve returned a list that holds one edge spelled differently from its
\* declaration ("a-b" declared, "a_b" resolved) and leaves another edge out.
C1_Witness ==
    /\ ReturnedOk
    /\ \E e1, e2 \in EdgeIds(metadata, package) :
         /\ e1 \in IdsOf(result.value.dependencies)
         /\ e2 \notin IdsOf(result.value.dependencies)
         /\ \E i \in 1 .. Len(package.dependencies) :
              /\ package.dependencies[i].name # metadata.pkgs_by_id[e1].name
              /\ SameName(package.dependencies[i].name, metadata.pkgs_by_id[e1].name)
              /\ package.dependencies[i].kind = "Normal"

-----------------------------------------------------------------------------
(* C2.  In every descriptor resolve returns, dependencies and              *)
(* build_dependencies are each ascending by package identifier, and both   *)
(* are the same for every permutation of the node's edge list.             *)
C2_SortedAndOrderFree ==
    ReturnedOk =>
        /\ Ascending(result.value.dependencies)
        /\ Ascending(result.value.build_dependencies)
        /\ LET edges == EdgesOf(metadata, package)
           IN \A f \in Permutations[Len(edges)] :
                LET other == resolve(config, fs,
                                     WithEdges(metadata, package,
                                               [i \in 1 .. Len(edges) |-> edges[f[i]]]),
                                     package)
                IN /\ other.ok
                   /\ other.value.dependencies = result.value.dependencies
                   /\ other.value.build_dependencies = result.value.build_dependencies

\* The edge list is in descending order and both of its edges are returned.
C2_Witness ==
    /\ ReturnedOk
    /\ LET edges == EdgesOf(metadata, package)
       IN /\ Len(edges) >= 2
          /\ edges[1].pkg > edges[2].pkg
          /\ Len(result.value.dependencies) >= 2

-----------------------------------------------------------------------------
(* C3 as claimed.  In every descriptor resolve returns, no package         *)
(* identifier is in both dependencies and build_dependencies.              *)
C3_Disjoint ==
    ReturnedOk =>
        IdsOf(result.value.dependencies) \cap IdsOf(result.value.build_dependencies) = {}

(* C3 as amended.  A package identifier is in both dependencies and        *)
(* build_dependencies exactly when it is an edge whose name matches both a *)
(* declared dependency of normal or unspecified kind and one of build      *)
(* kind; the two lists are disjoint when no edge does.                     *)
C3_SharedIffDeclaredTwice ==
    ReturnedOk =>
        \A id \in PackageIds :
            (id \in IdsOf(result.value.dependencies)
                    \cap IdsOf(result.value.build_dependencies))
            <=> /\ id \in EdgeIds(metadata, package)
                /\ Declares(metadata, package, id, {"Normal", "Unknown"})
                /\ Declares(metadata, package, id, {"Build"})

\* A package declared once as normal and once as build dependency is in
\* both lists.
C3_Witness ==
    /\ ReturnedOk
    /\ \E id \in IdsOf(result.value.dependencies) :
         id \in IdsOf(result.value.build_dependencies)

-----------------------------------------------------------------------------
(* C4 as claimed.  Whenever resolve returns a descriptor, every package    *)
(* identifier in dependencies and build_dependencies has a node in         *)
(* nodes_by_id, also when nodes_by_id and pkgs_by_id hold different keys.  *)
C4_DepsHaveNodes ==
    ReturnedOk =>
        (IdsOf(result.value.dependencies) \cup IdsOf(result.value.build_dependencies))
            \subseteq DOMAIN metadata.nodes_by_id

(* C4 as amended.  Whenever resolve returns a descriptor, every package    *)
(* identifier in dependencies and build_dependencies has a package in      *)
(* pkgs_by_id; it has a node in nodes_by_id when every key of pkgs_by_id   *)
(* is a key of nodes_by_id.                                                *)
C4_DepsHavePackages ==
    ReturnedOk =>
        LET ids == IdsOf(result.value.dependencies)
                       \cup IdsOf(result.value.build_dependencies)
        IN /\ ids \subseteq DOMAIN metadata.pkgs_by_id
           /\ (DOMAIN metadata.pkgs_by_id \subseteq DOMAIN metadata.nodes_by_id)
                  => ids \subseteq DOMAIN metadata.nodes_by_id

\* A descriptor is returned with a dependency that has a package and no node.
C4_Witness ==
    /\ ReturnedOk
    /\ \E id \in IdsOf(result.value.dependencies) :
         /\ id \in DOMAIN metadata.pkgs_by_id
         /\ id \notin DOMAIN metadata.nodes_by_id

-----------------------------------------------------------------------------
(* C5.  resolve returns a failure and no descriptor whenever the graph has *)
(* no node for the package, and whenever an edge of that node names a      *)
(* package identifier that pkgs_by_id does not hold; a descriptor is       *)
(* returned only when every edge was found, none dropped.                  *)
C5_FailsOnMissing ==
    Returned =>
        /\ package.id \notin DOMAIN metadata.nodes_by_id
              => (~result.ok /\ result.error.kind = "NoNode"
                             /\ result.error.id = package.id)
        /\ (/\ package.id \in DOMAIN metadata.nodes_by_id
            /\ ~(EdgeIds(metadata, package) \subseteq DOMAIN metadata.pkgs_by_id))
              => (/\ ~result.ok
                  /\ result.error.kind = "NoMatchingPackage"
                  /\ result.error.id \in EdgeIds(metadata, package)
                                             \ DOMAIN metadata.pkgs_by_id
                  /\ result.error.requester = package.id)
        /\ result.ok => NodeAndEdgesExist(metadata, package)

\* The node exists, its first edge is found and its second is dangling:
\* resolve fails and names the second.
C5_Witness ==
    /\ Returned
    /\ ~result.ok
    /\ package.id \in DOMAIN metadata.nodes_by_id
    /\ LET edges == EdgesOf(metadata, package)
       IN /\ Len(edges) >= 2
          /\ edges[1].pkg \in DOMAIN metadata.pkgs_by_id
          /\ edges[2].pkg \notin DOMAIN metadata.pkgs_by_id
          /\ result.error.id = edges[2].pkg

-----------------------------------------------------------------------------
\* Where the relative path rel leads from the directory at: ".." drops a
\* component, "." stays.
RECURSIVE Walk(_, _)
Walk(at, rel) ==
    IF rel = <<>> THEN at
    ELSE IF Head(rel) = "." THEN Walk(at, Tail(rel))
    ELSE IF Head(rel) = ".." THEN Walk(SubSeq(at, 1, Len(at) - 1), Tail(rel))
    ELSE Walk(Append(at, Head(rel)), Tail(rel))

(* C6.  source_directory is never absolute.  For an absolute manifest      *)
(* directory it is "./." when that directory equals the canonical root,    *)
(* "./" followed by the path difference when it lies beneath the root, and *)
(* a path that begins with ".." when it lies outside the root's subtree;   *)
(* in each case it leads from the root to the manifest directory.          *)
C6_SourceDirectoryRelative ==
    ReturnedOk =>
        LET dir == result.value.source_directory
            package_path == DirOf(package.manifest_path)
            root == DirOf(fs.path)
        IN /\ ~dir.abs
           /\ package_path.abs =>
                /\ package_path = root => dir.comps = <<".", ".">>
                /\ (package_path # root /\ IsPrefix(root.comps, package_path.comps))
                     => dir.comps = <<".">> \o SubSeq(package_path.comps,
                                                      Len(root.comps) + 1,
                                                      Len(package_path.comps))
                /\ ~IsPrefix(root.comps, package_path.comps)
                     => (dir.comps # <<>> /\ Head(dir.comps) = "..")
                /\ Walk(root.comps, dir.comps) = package_path.comps

\* The manifest directory is a sibling of the root: the path climbs and
\* descends.
C6_Witness ==
    /\ ReturnedOk
    /\ DirOf(package.manifest_path).abs
    /\ DirOf(fs.path).comps # <<>>
    /\ ~IsPrefix(DirOf(fs.path).comps, DirOf(package.manifest_path).comps)
    /\ Head(result.value.source_directory.comps) = ".."
    /\ Len(result.value.source_directory.comps) >= 2

-----------------------------------------------------------------------------
(* C7.  is_root_or_workspace_member is true if and only if the package     *)
(* identifier is the declared root, when there is one, or is one of the    *)
(* workspace members; it is false otherwise, also with no root declared.   *)
C7_MemberFlag ==
    ReturnedOk =>
        /\ result.value.is_root_or_workspace_member
              <=> (metadata.root = Some(package.id)
                      \/ package.id \in metadata.workspace_members)
        /\ (metadata.root = None /\ package.id \notin metadata.workspace_members)
              => ~result.value.is_root_or_workspace_member

\* Another package is the root, and the package is a workspace member.
C7_Witness ==
    /\ ReturnedOk
    /\ metadata.root # None
    /\ metadata.root # Some(package.id)
    /\ package.id \in metadata.workspace_members
    /\ result.value.is_root_or_workspace_member

-----------------------------------------------------------------------------
\* What the claim says the field for tag is.
FirstTaggedPath(pkg, tag) ==
    LET tagged == {i \in 1 .. Len(pkg.targets) : tag \in pkg.targets[i].kind}
        dir == DirOf(pkg.manifest_path)
    IN IF tagged = {} THEN None
       ELSE LET first == CHOOSE i \in tagged : \A j \in tagged : i <= j
                src == pkg.targets[first].src_path
            IN IF src.abs = dir.abs /\ IsPrefix(dir.comps, src.comps)
               THEN Some(Path(FALSE, SubSeq(src.comps, Len(dir.comps) + 1, Len(src.comps))))
               ELSE None

(* C8.  lib_path (build) is the source path, relative to the manifest      *)
(* directory, of the first target tagged "lib" ("custom-build"); it is     *)
(* absent when no target has the tag, and absent when that first target's  *)
(* source path is not under the manifest directory, whatever later targets *)
(* of the same tag there are.                                              *)
C8_FirstTargetPath ==
    ReturnedOk =>
        /\ result.value.lib_path = FirstTaggedPath(package, "lib")
        /\ result.value.build = FirstTaggedPath(package, "custom-build")

\* The first "lib" target is outside the manifest directory, a later one is
\* inside: lib_path is absent.
C8_Witness ==
    /\ ReturnedOk
    /\ Len(package.targets) >= 2
    /\ "lib" \in package.targets[1].kind
    /\ "lib" \in package.targets[2].kind
    /\ ~StartsWith(package.targets[1].src_path, DirOf(package.manifest_path))
    /\ StartsWith(package.targets[2].src_path, DirOf(package.manifest_path))
    /\ result.value.lib_path = None

-----------------------------------------------------------------------------
\* The last declared dependency of pkg with a kind in kinds whose name
\* matches name.
LastDeclared(pkg, kinds, name) ==
    LET matching == {i \in 1 .. Len(pkg.dependencies) :
                        /\ pkg.dependencies[i].kind \in kinds
                        /\ SameName(pkg.dependencies[i].name, name)}
    IN pkg.dependencies[CHOOSE i \in matching : \A j \in matching : j <= i]

\* list has one entry for each edge that matches a declaration with a kind
\* in kinds, with the target of the last such declaration.
OnePerEdgeLastWins(list, kinds) ==
    /\ Len(list) = Cardinality({i \in 1 .. Len(EdgesOf(metadata, package)) :
                     Declares(metadata, package, EdgesOf(metadata, package)[i].pkg, kinds)})
    /\ \A i \in 1 .. Len(list) :
          list[i].target =
              LastDeclared(package, kinds,
                           metadata.pkgs_by_id[list[i].package_id].name).target

(* C9.  filtered_dependencies emits exactly one ResolvedDependency for     *)
(* each matching edge, never one for each declared entry, and when several *)
(* declared dependencies that satisfy the predicate normalize to the same  *)
(* name the platform condition is that of the last of them in declaration  *)
(* order.                                                                  *)
C9_LastDeclaredWins ==
    ReturnedOk =>
        /\ OnePerEdgeLastWins(result.value.dependencies, {"Normal", "Unknown"})
        /\ OnePerEdgeLastWins(result.value.build_dependencies, {"Build"})

\* Two normal declarations of one name in two spellings, the first with a
\* platform condition and the second without: the one entry has none.
C9_Witness ==
    /\ ReturnedOk
    /\ Len(package.dependencies) = 2
    /\ package.dependencies[1].kind = "Normal"
    /\ package.dependencies[2].kind = "Normal"
    /\ package.dependencies[1].name # package.dependencies[2].name
    /\ SameName(package.dependencies[1].name, package.dependencies[2].name)
    /\ package.dependencies[1].target # None
    /\ package.dependencies[2].target = None
    /\ Len(EdgesOf(metadata, package)) = 1
    /\ Len(result.value.dependencies) = 1
    /\ result.value.dependencies[1].target = None

-----------------------------------------------------------------------------
\* pkg with every dependency of unspecified kind declared normal instead.
UnknownAsNormal(pkg) ==
    [pkg EXCEPT !.dependencies =
        [i \in 1 .. Len(pkg.dependencies) |->
            IF pkg.dependencies[i].kind = "Unknown"
            THEN [pkg.dependencies[i] EXCEPT !.kind = "Normal"]
            ELSE pkg.dependencies[i]]]

(* C10.  An edge whose name matches only declared dependencies of          *)
(* development kind is in neither list; an edge that matches a declared    *)
(* dependency of unspecified kind is in dependencies, and the list is what *)
(* it would be had the declaration been of normal kind; resolve succeeds   *)
(* in both cases.                                                          *)
C10_DevExcludedUnknownNormal ==
    Returned =>
        /\ result.ok
        /\ \A id \in EdgeIds(metadata, package) :
              /\ (/\ Declares(metadata, package, id, {"Development"})
                  /\ ~Declares(metadata, package, id, {"Normal", "Build", "Unknown"}))
                    => (/\ id \notin IdsOf(result.value.dependencies)
                        /\ id \notin IdsOf(result.value.build_dependencies))
              /\ Declares(metadata, package, id, {"Unknown"})
                    => id \in IdsOf(result.value.dependencies)
        /\ result.value.dependencies =
               resolve(config, fs, metadata, UnknownAsNormal(package)).value.dependencies

\* One edge is declared for development only and left out, another is of
\* unspecified kind and returned.
C10_Witness ==
    /\ ReturnedOk
    /\ \E dev, unk \in EdgeIds(metadata, package) :
         /\ Declares(metadata, package, dev, {"Development"})
         /\ ~Declares(metadata, package, dev, {"Normal", "Build", "Unknown"})
         /\ dev \notin IdsOf(result.value.dependencies)
         /\ dev \notin IdsOf(result.value.build_dependencies)
         /\ Declares(metadata, package, unk, {"Unknown"})
         /\ ~Declares(metadata, package, unk, {"Normal"})
         /\ unk \in IdsOf(result.value.dependencies)

=============================================================================
